---- MODULE Spec2Model ----
(***************************************************************************)
(* Salary calculator models (salary_calculator_django_models_exapmle.py). *)
(*                                                                         *)
(* The tables of the backing store are the variables; every save() /      *)
(* signal handler of the source is one action.  The store runs in         *)
(* autocommit mode (the source opens no transaction), so a statement that *)
(* raises leaves the statements before it applied.                        *)
(*                                                                         *)
(* Time: a datetime is a tick 1..MaxTime, a date is a day number; a       *)
(* datetime handed to a DateField lookup is truncated to its day (DateOf).*)
(* Display-only fields (colours, descriptions) are not modelled; of the   *)
(* names only Role.name is, being unique.                                 *)
(***************************************************************************)
EXTENDS Integers, Sequences, FiniteSets, TLC

VARIABLES
    now,             \* timezone.now(), a tick
    roles,           \* Role table: pk -> record (pk = index)
    posRoles,        \* Position.roles (many-to-many): position -> set of Role pks
    posLog,          \* PositionRolesLog table: pk -> record
    workLog,         \* WorkLog table: pk -> record, NoRow once deleted
    migrations,      \* WorkLogMigration table: pk -> record
    roleMigrations,  \* WorkLogRoleMigration table, a set (unique_together)
    saves,           \* the number of calls of Role.save so far
    schemes,         \* CalendarScheme table: pk -> default_scheme (pk = index)
    writers,         \* the calls of CalendarScheme.save in progress, one per writer
    last             \* the last call: operation, arguments, outcome

vars == <<now, roles, posRoles, posLog, workLog, migrations, roleMigrations, saves,
          schemes, writers, last>>

---------------------------------------------------------------------------
(* Bounds and constants *)

\* None: an unset pk, foreign key or datetime (pks and ticks start at 1)
Null == 0

MaxTime == 3
TicksPerDay == 2
MaxRoles == 3
MaxSaves == 2
MaxWorkLogs == 2
MaxRoleMigrations == 2
MaxLogs == 2

MaxSchemes == 3
MaxOverrides == 2
MaxHistory == 3
MaxClock == 6

\* datetime(2016, 1, 1): the start given to a backfilled ledger entry
Epoch == 0

Times == 1..MaxTime
DateOf(dt) == dt \div TicksPerDay
Days == 0..DateOf(MaxTime)

Workers == {1, 2}
Positions == {1, 2}
\* Worker.position
WorkerPosition(w) == w

RolePks == 1..Len(roles)

SchemePks == 1..Len(schemes)
Writers == {1, 2}
\* no scheme is stored; no call of CalendarScheme.save is in progress
NoDefault == <<>>
Idle == [pc |-> "idle"]
NoWriters == [w \in Writers |-> Idle]

\* all the orders in which a query without ORDER BY may return the rows S
RECURSIVE Orders(_)
Orders(S) ==
    IF S = {} THEN {<<>>}
    ELSE UNION {{<<x>> \o o : o \in Orders(S \ {x})} : x \in S}

---------------------------------------------------------------------------
(* WorkLog *)

NoRow == [worker |-> Null, role |-> Null, date |-> 0, hours |-> 0]

WorkLogPks(wl) == {i \in 1..Len(wl) : wl[i] # NoRow}

\* unique_together = ('worker', 'role', 'date'): would row r, stored under pk, clash?
WorkLogClash(wl, pk, r) ==
    \E j \in WorkLogPks(wl) \ {pk} :
        /\ wl[j].worker = r.worker
        /\ wl[j].role = r.role
        /\ wl[j].date = r.date

\* Worker.get_roles
get_roles(w) == posRoles[WorkerPosition(w)]

\* hours = DecimalField(max_digits=4, decimal_places=2): an instance carries
\* any decimal (here in thousandths of an hour), the column holds hundredths;
\* writing the row rounds the value to two places, half to even
StoredHours(h) ==
    LET q == h \div 10
        r == h % 10
    IN IF r < 5 THEN q
       ELSE IF r > 5 THEN q + 1
       ELSE q + (q % 2)

\* WorkLog.save
WorkLogSave(cand) ==
    LET row == [worker |-> cand.worker, role |-> cand.role,
                date |-> cand.date, hours |-> StoredHours(cand.hours)]
        tag == [op |-> "WorkLogSave", pk |-> cand.pk, hours |-> cand.hours]
    IN
    /\ IF cand.hours = 0
       THEN /\ workLog' = IF cand.pk # Null
                          THEN [workLog EXCEPT ![cand.pk] = NoRow]
                          ELSE workLog
            /\ last' = tag @@ [result |-> "ok"]
       ELSE IF WorkLogClash(workLog, cand.pk, row)
       THEN /\ workLog' = workLog
            /\ last' = tag @@ [result |-> "IntegrityError"]
       ELSE /\ workLog' = IF cand.pk # Null
                          THEN [workLog EXCEPT ![cand.pk] = row]
                          ELSE Append(workLog, row)
            /\ last' = tag @@ [result |-> "ok"]
    /\ UNCHANGED <<now, roles, posRoles, posLog, migrations, roleMigrations, saves, schemes, writers>>

\* the hours of the instances saved: 0, 0.004 and 0.01 hours
HoursChoices == {0, 4, 10}

WorkLogCandidates ==
    [pk : {Null} \cup WorkLogPks(workLog), worker : Workers, role : RolePks,
     date : Days, hours : HoursChoices]

DoWorkLogSave(cands) ==
    \E cand \in cands :
        /\ cand.pk = Null => Len(workLog) < MaxWorkLogs
        /\ WorkLogSave(cand)

---------------------------------------------------------------------------
(* WorkLogMigration *)

\* WorkLog.objects.filter(worker=, role=, date__gte=)
MatchedRowsMutantAnyDate(wl, worker, role, from) ==
    {i \in WorkLogPks(wl) : wl[i].worker = worker /\ wl[i].role = role}

MatchedRows(wl, worker, role, from) ==
    {i \in WorkLogPks(wl) :
        wl[i].worker = worker /\ wl[i].role = role /\ wl[i].date >= from}

\* .update(worker=new_worker, role=new_role) of the rows `hit`: the statement
\* raises IntegrityError, changing nothing, when a rewritten row meets a row
\* that already holds its (worker, role, date)
UpdateRows(wl, hit, new_worker, new_role) ==
    IF \E i \in hit : \E j \in WorkLogPks(wl) \ hit :
          /\ wl[j].worker = new_worker
          /\ wl[j].role = new_role
          /\ wl[j].date = wl[i].date
    THEN [wl |-> wl, ok |-> FALSE]
    ELSE [wl |-> [i \in 1..Len(wl) |->
                    IF i \in hit
                    THEN [wl[i] EXCEPT !.worker = new_worker, !.role = new_role]
                    ELSE wl[i]],
          ok |-> TRUE]

\* one pass of the loop body of WorkLogMigration.clean
ReassignRows(wl, cand, rm) ==
    UpdateRows(wl, MatchedRows(wl, cand.old_worker, rm.old_role, cand.date_migrate_from),
               cand.new_worker, rm.new_role)

\* the loop over migration.role_migrations.all(), in the order `order`
RECURSIVE ApplyRoleMigrations(_, _, _)
ApplyRoleMigrations(wl, cand, order) ==
    IF order = <<>> THEN [wl |-> wl, ok |-> TRUE]
    ELSE LET step == ReassignRows(wl, cand, Head(order))
         IN IF step.ok THEN ApplyRoleMigrations(step.wl, cand, Tail(order))
            ELSE step

\* if not old_worker == new_worker: filter(worker=old_worker, date__gte=).delete()
DeleteMutantAlways(wl, cand) ==
    [i \in 1..Len(wl) |->
        IF /\ wl[i] # NoRow
           /\ wl[i].worker = cand.old_worker
           /\ wl[i].date >= cand.date_migrate_from
        THEN NoRow ELSE wl[i]]

DeleteRemaining(wl, cand) ==
    IF cand.old_worker # cand.new_worker
    THEN [i \in 1..Len(wl) |->
            IF /\ wl[i] # NoRow
               /\ wl[i].worker = cand.old_worker
               /\ wl[i].date >= cand.date_migrate_from
            THEN NoRow ELSE wl[i]]
    ELSE wl

\* the checks of WorkLogMigration.clean that raise ValidationError
CommitRefusedMutantNoLock(cand) ==
    /\ cand.commit
    /\ cand.pk \notin 1..Len(migrations)

CommitRefused(cand) ==
    /\ cand.commit
    /\ \/ cand.pk = Null
       \/ cand.pk \notin 1..Len(migrations)
       \/ migrations[cand.pk].commit

\* WorkLogMigration.save: full_clean (= clean), then Model.save.  `order` is the
\* order in which role_migrations.all() returns the child rows.  The tag keeps
\* which rows the call rewrote and which it deleted.
MigrationSave(cand, order) ==
    LET tag == [op |-> "MigrationSave", pk |-> cand.pk, commit |-> cand.commit,
                old_worker |-> cand.old_worker,
                date_migrate_from |-> cand.date_migrate_from]
        rec == [old_worker |-> cand.old_worker, new_worker |-> cand.new_worker,
                date_migrate_from |-> cand.date_migrate_from, commit |-> cand.commit]
        stored == IF cand.pk = Null
                  THEN Append(migrations, rec)
                  ELSE [migrations EXCEPT ![cand.pk] = rec]
    IN
    \E moved \in {ApplyRoleMigrations(workLog, cand, order)} :
    LET kept == DeleteRemaining(moved.wl, cand)
        rewritten == {i \in WorkLogPks(workLog) : moved.wl[i] # workLog[i]}
    IN
    /\ IF CommitRefused(cand)
       THEN /\ last' = tag @@ [result |-> "ValidationError"]
            /\ UNCHANGED <<workLog, migrations>>
       ELSE IF ~cand.commit
       THEN /\ migrations' = stored
            /\ last' = tag @@ [result |-> "ok"]
            /\ UNCHANGED workLog
       ELSE IF ~moved.ok
       THEN /\ workLog' = moved.wl
            /\ last' = tag @@ [result |-> "IntegrityError", rewritten |-> rewritten]
            /\ UNCHANGED migrations
       ELSE /\ workLog' = kept
            /\ migrations' = stored
            /\ last' = tag @@ [result |-> "ok", rewritten |-> rewritten,
                               deleted |-> WorkLogPks(workLog) \ WorkLogPks(kept)]
    /\ UNCHANGED <<now, roles, posRoles, posLog, roleMigrations, saves, schemes, writers>>

\* the cutover day of the candidates: day 0 lies before it, day 1 on it
CutoverDays == {1}

MigrationCandidates ==
    [pk : {Null} \cup (1..Len(migrations)), old_worker : Workers, new_worker : Workers,
     date_migrate_from : CutoverDays, commit : BOOLEAN]

RoleMigrationsOf(pk) == {rm \in roleMigrations : rm.migration = pk}

DoMigrationSave ==
    \E cand \in MigrationCandidates :
        /\ (~cand.commit /\ cand.pk = Null) => migrations = <<>>
        /\ \E order \in Orders(RoleMigrationsOf(cand.pk)) :
               MigrationSave(cand, order)

\* WorkLogRoleMigration.clean: the two checks that raise ValidationError
RoleChoiceInvalidMutantOldOnly(cand) ==
    cand.old_role \notin get_roles(migrations[cand.migration].old_worker)

RoleChoiceInvalid(cand) ==
    \/ cand.old_role \notin get_roles(migrations[cand.migration].old_worker)
    \/ cand.new_role \notin get_roles(migrations[cand.migration].new_worker)

\* WorkLogRoleMigration.save: full_clean (= clean), then Model.save
RoleMigrationSave(cand) ==
    LET tag == [op |-> "RoleMigrationSave", rm |-> cand] IN
    /\ IF RoleChoiceInvalid(cand)
       THEN /\ last' = tag @@ [result |-> "ValidationError"]
            /\ UNCHANGED roleMigrations
       ELSE IF cand \in roleMigrations
       THEN /\ last' = tag @@ [result |-> "IntegrityError"]
            /\ UNCHANGED roleMigrations
       ELSE /\ roleMigrations' = roleMigrations \cup {cand}
            /\ last' = [op |-> "RoleMigrationSave", result |-> "ok"]
    /\ UNCHANGED <<now, roles, posRoles, posLog, workLog, migrations, saves, schemes, writers>>

RoleMigrationCandidates ==
    [migration : 1..Len(migrations), old_role : RolePks, new_role : {Null} \cup RolePks]

DoRoleMigrationSave ==
    \E cand \in RoleMigrationCandidates :
        /\ Cardinality(roleMigrations) < MaxRoleMigrations
        /\ RoleMigrationSave(cand)

---------------------------------------------------------------------------
(* PositionRolesLog: the m2m_changed handler roles_changed *)

LogPks(log) == 1..Len(log)

OpenLog(p, r, t) == [position |-> p, role |-> r, date_start |-> t, date_end |-> Null]

\* PositionRolesLog.objects.filter(position=, role_id=, date_end__isnull=True)
OpenLogs(log, p, r) ==
    {k \in LogPks(log) :
        log[k].position = p /\ log[k].role = r /\ log[k].date_end = Null}

\* action == "post_clear"
PostClear(log, p, t) ==
    [k \in LogPks(log) |->
        IF log[k].position = p /\ log[k].date_end = Null
        THEN [log[k] EXCEPT !.date_end = t] ELSE log[k]]

\* action == "post_add", one pk of pk_set: get_or_create(position, role_id, date_start=now)
PostAddMutantEpochStart(log, p, r, t) ==
    [log |-> Append(log, OpenLog(p, r, Epoch)), ok |-> TRUE]

PostAdd(log, p, r, t) ==
    LET same == {k \in LogPks(log) :
                    log[k].position = p /\ log[k].role = r /\ log[k].date_start = t}
    IN IF same = {} THEN [log |-> Append(log, OpenLog(p, r, t)), ok |-> TRUE]
       ELSE [log |-> log, ok |-> Cardinality(same) = 1]

\* action == "post_remove", one pk of pk_set: close the open entry, or create
\* one starting at Epoch and close that
PostRemoveMutantKeepsOpen(log, p, r, t) ==
    [log |-> log, ok |-> TRUE]

PostRemove(log, p, r, t) ==
    LET open == OpenLogs(log, p, r)
    IN IF open = {}
       THEN [log |-> Append(log, [OpenLog(p, r, Epoch) EXCEPT !.date_end = t]),
             ok |-> TRUE]
       ELSE IF Cardinality(open) = 1
       THEN [log |-> [k \in LogPks(log) |->
                        IF k \in open THEN [log[k] EXCEPT !.date_end = t] ELSE log[k]],
             ok |-> TRUE]
       ELSE [log |-> log, ok |-> FALSE]

Outcome(ok) == IF ok THEN "ok" ELSE "MultipleObjectsReturned"

\* position.roles.add(role): the signal carries only the pks that were missing
RolesAdd(p, r) ==
    LET tag == [op |-> "RolesAdd", position |-> p, role |-> r,
                attached |-> r \in posRoles[p]]
    IN
    /\ IF r \in posRoles[p]
       THEN /\ UNCHANGED <<posRoles, posLog>>
            /\ last' = tag @@ [result |-> "ok"]
       ELSE \E res \in {PostAdd(posLog, p, r, now)} :
            /\ posRoles' = [posRoles EXCEPT ![p] = @ \cup {r}]
            /\ posLog' = res.log
            /\ last' = tag @@ [result |-> Outcome(res.ok)]
    /\ UNCHANGED <<now, roles, workLog, migrations, roleMigrations, saves, schemes, writers>>

\* position.roles.remove(role): the signal carries every pk passed
RolesRemove(p, r) ==
    \E res \in {PostRemove(posLog, p, r, now)} :
        /\ posRoles' = [posRoles EXCEPT ![p] = @ \ {r}]
        /\ posLog' = res.log
        /\ last' = [op |-> "RolesRemove", position |-> p, role |-> r,
                    attached |-> r \in posRoles[p], result |-> Outcome(res.ok)]
        /\ UNCHANGED <<now, roles, workLog, migrations, roleMigrations, saves, schemes, writers>>

\* position.roles.clear()
RolesClear(p) ==
    /\ posRoles' = [posRoles EXCEPT ![p] = {}]
    /\ posLog' = PostClear(posLog, p, now)
    /\ last' = [op |-> "RolesClear", position |-> p, result |-> "ok"]
    /\ UNCHANGED <<now, roles, workLog, migrations, roleMigrations, saves, schemes, writers>>

\* the clock behind timezone.now()
Tick ==
    /\ now < MaxTime
    /\ now' = now + 1
    /\ last' = [op |-> "Tick"]
    /\ UNCHANGED <<roles, posRoles, posLog, workLog, migrations, roleMigrations, saves, schemes, writers>>

---------------------------------------------------------------------------
(* Role *)

RoleRecord(cand) ==
    [name |-> cand.name, salary_type |-> cand.salary_type, salary |-> cand.salary,
     calendar_scheme |-> cand.calendar_scheme, date_start |-> cand.date_start,
     date_end |-> cand.date_end, replaced_by |-> cand.replaced_by]

\* if self.date_end and self.date_end <= self.date_start
DateEndInvalidMutantStrict(r) == r.date_end # Null /\ r.date_end < r.date_start

DateEndInvalid(r) == r.date_end # Null /\ r.date_end <= r.date_start

\* WorkLog.objects.filter(role=self).count()
HasWorkLogs(pk) == \E i \in WorkLogPks(workLog) : workLog[i].role = pk

\* the comparison of the candidate with the stored version
PayDiffers(cand, old) ==
    \/ cand.salary_type # old.salary_type
    \/ cand.salary # old.salary
    \/ cand.calendar_scheme # old.calendar_scheme

\* the conditions of clean() for a versioning edit: stored, referenced by a
\* WorkLog row, pay fields changed
IsVersioningEditMutantNoLogs(cand) ==
    /\ cand.pk # Null
    /\ PayDiffers(cand, roles[cand.pk])

IsVersioningEdit(cand) ==
    /\ cand.pk # Null
    /\ HasWorkLogs(cand.pk)
    /\ PayDiffers(cand, roles[cand.pk])

\* if self.date_start <= old_ins.date_start
StartNotNewerMutantStrict(cand, old) == cand.date_start < old.date_start

StartNotNewer(cand, old) == cand.date_start <= old.date_start

\* old_ins.name = "[%s] %s" % (self.date_start, self.name); a name is the
\* sequence of its date stamps followed by the name typed in
Renamed(cand) == <<cand.date_start>> \o cand.name

\* name is unique=True: whether a row other than pk carries the name
NameTaken(rs, name, pk) == \E i \in 1..Len(rs) : i # pk /\ rs[i].name = name

\* replace_by, the Role rows: close self, point self and every row that pointed
\* at self to other_role
ReplaceRolesMutantNoSuccessor(rs, old, new, dt) ==
    [rs EXCEPT ![old].date_end = dt]

ReplaceRoles(rs, old, new, dt) ==
    LET closed == [rs EXCEPT ![old].date_end = dt, ![old].replaced_by = new]
    IN [i \in 1..Len(closed) |->
           IF closed[i].replaced_by = old
           THEN [closed[i] EXCEPT !.replaced_by = new] ELSE closed[i]]

\* logs.order_by('-date_end')[0] of the closed entries of (position, self):
\* any of the entries with the latest date_end
LatestClosed(log, p, r) ==
    LET shut == {k \in LogPks(log) :
                    log[k].position = p /\ log[k].role = r /\ log[k].date_end # Null}
    IN {k \in shut : \A j \in shut : log[j].date_end <= log[k].date_end}

\* replace_by, the loop body for one position; pick is the entry that
\* logs[0] returns
ReplacePosition(st, p, old, new, dt, t, pick) ==
    LET removed == PostRemove(st.log, p, old, t)
        added == PostAdd(removed.log, p, new, t)
        shut == IF pick \in LogPks(added.log)
                THEN [added.log EXCEPT ![pick].date_end = dt] ELSE added.log
        open == OpenLogs(shut, p, new)
    IN IF ~st.ok THEN st
       ELSE IF ~removed.ok
       THEN [posRoles |-> [st.posRoles EXCEPT ![p] = @ \ {old}],
             log |-> st.log, ok |-> FALSE]
       ELSE IF ~added.ok \/ Cardinality(open) > 1
       THEN [posRoles |-> [st.posRoles EXCEPT ![p] = (@ \ {old}) \cup {new}],
             log |-> IF added.ok THEN shut ELSE removed.log, ok |-> FALSE]
       ELSE [posRoles |-> [st.posRoles EXCEPT ![p] = (@ \ {old}) \cup {new}],
             log |-> [k \in LogPks(shut) |->
                        IF k \in open THEN [shut[k] EXCEPT !.date_start = dt] ELSE shut[k]],
             ok |-> TRUE]

\* the choices logs[0] may make for position p, Null when no entry is closed
Picks(st, p, old, new, t) ==
    LET removed == PostRemove(st.log, p, old, t)
        added == PostAdd(removed.log, p, new, t)
        latest == LatestClosed(added.log, p, old)
    IN IF latest = {} THEN {Null} ELSE latest

\* replace_by, the loop over Position.objects.filter(roles__id=self.id)
RECURSIVE ReplacePositions(_, _, _, _, _, _)
ReplacePositions(st, ps, old, new, dt, t) ==
    IF ps = {} THEN {st}
    ELSE LET p == CHOOSE q \in ps : \A x \in ps : q <= x
         IN UNION {ReplacePositions(ReplacePosition(st, p, old, new, dt, t, pick),
                                    ps \ {p}, old, new, dt, t)
                   : pick \in Picks(st, p, old, new, t)}

\* replace_by, the last statement:
\* WorkLog.objects.filter(role=self, date__gte=dt).update(role=other_role)
ReplaceWorkLogsMutantAll(wl, old, new, dt) ==
    [i \in 1..Len(wl) |->
        IF wl[i] # NoRow /\ wl[i].role = old
        THEN [wl[i] EXCEPT !.role = new] ELSE wl[i]]

ReplaceWorkLogs(wl, old, new, dt) ==
    [i \in 1..Len(wl) |->
        IF wl[i] # NoRow /\ wl[i].role = old /\ wl[i].date >= DateOf(dt)
        THEN [wl[i] EXCEPT !.role = new] ELSE wl[i]]

\* Role.save: full_clean (= clean, which carries out a versioning edit), then
\* Model.save of the candidate
RoleSave(cand) ==
    LET tag == [op |-> "RoleSave", cand |-> cand]
        old == cand.pk
        new == Len(roles) + 1
        dt == cand.date_start
        fresh == [RoleRecord(cand) EXCEPT !.date_end = Null]
        holders == {p \in Positions : old \in posRoles[p]}
        renamed == [roles EXCEPT ![old].name = Renamed(cand)]
    IN
    /\ IF DateEndInvalid(cand)
       THEN /\ last' = tag @@ [result |-> "ValidationError", versioned |-> FALSE]
            /\ UNCHANGED <<roles, posRoles, posLog, workLog>>
       ELSE IF ~IsVersioningEdit(cand)
       THEN IF NameTaken(roles, cand.name, cand.pk)
            THEN /\ last' = tag @@ [result |-> "IntegrityError", versioned |-> FALSE]
                 /\ UNCHANGED <<roles, posRoles, posLog, workLog>>
            ELSE /\ roles' = IF cand.pk = Null THEN Append(roles, RoleRecord(cand))
                             ELSE [roles EXCEPT ![cand.pk] = RoleRecord(cand)]
                 /\ last' = tag @@ [result |-> "ok", versioned |-> FALSE]
                 /\ UNCHANGED <<posRoles, posLog, workLog>>
       ELSE IF StartNotNewer(cand, roles[old])
       THEN /\ last' = tag @@ [result |-> "ValidationError", versioned |-> FALSE]
            /\ UNCHANGED <<roles, posRoles, posLog, workLog>>
       ELSE IF NameTaken(roles, Renamed(cand), old)
       THEN /\ last' = tag @@ [result |-> "IntegrityError", versioned |-> FALSE]
            /\ UNCHANGED <<roles, posRoles, posLog, workLog>>
       ELSE IF NameTaken(roles, cand.name, old)
       THEN /\ roles' = [roles EXCEPT ![old].name = Renamed(cand)]
            /\ last' = tag @@ [result |-> "IntegrityError", versioned |-> FALSE]
            /\ UNCHANGED <<posRoles, posLog, workLog>>
       ELSE \E st \in ReplacePositions([posRoles |-> posRoles, log |-> posLog, ok |-> TRUE],
                                       holders, old, new, dt, now) :
            /\ posRoles' = st.posRoles
            /\ posLog' = st.log
            /\ IF st.ok
               THEN /\ roles' = [ReplaceRoles(Append(renamed, fresh), old, new, dt)
                                    EXCEPT ![new] = fresh]
                    /\ workLog' = ReplaceWorkLogs(workLog, old, new, dt)
               ELSE /\ roles' = ReplaceRoles(Append(renamed, fresh), old, new, dt)
                    /\ UNCHANGED workLog
            /\ last' = tag @@ [result |-> Outcome(st.ok), versioned |-> TRUE]
    /\ UNCHANGED <<now, migrations, roleMigrations, schemes, writers>>

\* the pay fields (salary_type, salary, calendar_scheme) of the candidates:
\* those of InitialRole, and one change of each field
PayChoices == {<<1, 1, 1>>, <<2, 1, 1>>, <<1, 2, 1>>, <<1, 1, 2>>}

\* the names typed in
Names == {<<1>>, <<2>>}

\* the end dates of the candidates: unset, or the tick in the middle
EndChoices == {Null, 2}

\* the candidates of Role.save: a new role or a stored one, with the form's
\* fields
RoleCandidates(successors) ==
    {[pk |-> pk, name |-> name,
      salary_type |-> pay[1], salary |-> pay[2], calendar_scheme |-> pay[3],
      date_start |-> ds, date_end |-> de, replaced_by |-> rb] :
        pk \in {Null} \cup RolePks, name \in Names, pay \in PayChoices,
        ds \in Times, de \in EndChoices, rb \in successors}

\* whether Role.save of the candidate gets as far as inserting a Role row
InsertsRole(cand) ==
    /\ ~DateEndInvalid(cand)
    /\ ~NameTaken(roles, cand.name, cand.pk)
    /\ \/ cand.pk = Null
       \/ /\ IsVersioningEdit(cand)
          /\ ~StartNotNewer(cand, roles[cand.pk])
          /\ ~NameTaken(roles, Renamed(cand), cand.pk)

\* a call of Role.save the bounds leave room for: a new Role row
RoomFor(cand) == InsertsRole(cand) => Len(roles) < MaxRoles

DoRoleSave(cands) ==
    /\ saves < MaxSaves
    /\ saves' = saves + 1
    /\ \E cand \in cands : RoomFor(cand) /\ RoleSave(cand)
    /\ Len(posLog') <= MaxLogs

\* the calls of the role set of a position, while the ledger has room
DoRolesAdd ==
    \E p \in Positions, r \in RolePks : RolesAdd(p, r) /\ Len(posLog') <= MaxLogs

DoRolesRemove ==
    \E p \in Positions, r \in RolePks : RolesRemove(p, r) /\ Len(posLog') <= MaxLogs

DoRolesClear == \E p \in Positions : RolesClear(p)

---------------------------------------------------------------------------
(* CalendarScheme.save: the update that clears every default flag, then   *)
(* Model.save of the instance, as two statements of the writer's call     *)

InProgress == {w \in Writers : writers[w].pc # "idle"}

\* a writer calls save() on its instance of scheme s (Null: a new scheme) with
\* default_scheme = flag
SchemeSaveBegin(w, s, flag) ==
    /\ writers[w].pc = "idle"
    /\ writers' = [writers EXCEPT ![w] =
                      [pc |-> IF flag THEN "clear" ELSE "persist",
                       scheme |-> s, default_scheme |-> flag]]
    /\ last' = [op |-> "CalendarSchemeSave", step |-> "begin", writer |-> w,
                scheme |-> s, default_scheme |-> flag]
    /\ UNCHANGED <<now, roles, posRoles, posLog, workLog, migrations, roleMigrations,
                   saves, schemes>>

\* CalendarScheme.objects.all().update(default_scheme=False)
ClearDefaultsMutantKeep(ss) == ss

ClearDefaults(ss) == [s \in DOMAIN ss |-> FALSE]

SchemeSaveClear(w) ==
    /\ writers[w].pc = "clear"
    /\ schemes' = ClearDefaults(schemes)
    /\ writers' = [writers EXCEPT ![w].pc = "persist"]
    /\ last' = [op |-> "CalendarSchemeSave", step |-> "clear", writer |-> w,
                scheme |-> writers[w].scheme, default_scheme |-> TRUE]
    /\ UNCHANGED <<now, roles, posRoles, posLog, workLog, migrations, roleMigrations,
                   saves>>

\* super(CalendarScheme, self).save(*args, **kwargs)
SchemeSavePersist(w) ==
    /\ writers[w].pc = "persist"
    /\ schemes' = IF writers[w].scheme = Null
                  THEN Append(schemes, writers[w].default_scheme)
                  ELSE [schemes EXCEPT ![writers[w].scheme] = writers[w].default_scheme]
    /\ writers' = [writers EXCEPT ![w] = Idle]
    /\ last' = [op |-> "CalendarSchemeSave", step |-> "persist", writer |-> w,
                scheme |-> IF writers[w].scheme = Null THEN Len(schemes) + 1
                           ELSE writers[w].scheme,
                default_scheme |-> writers[w].default_scheme]
    /\ UNCHANGED <<now, roles, posRoles, posLog, workLog, migrations, roleMigrations,
                   saves>>

\* the calls of save() by writers that run side by side
DoSchemeSaveBegin ==
    \E w \in Writers, s \in {Null} \cup SchemePks, flag \in BOOLEAN :
        /\ s = Null => Len(schemes) + Cardinality({v \in InProgress :
                                                   writers[v].scheme = Null}) < MaxSchemes
        /\ SchemeSaveBegin(w, s, flag)

\* the calls of save() that start when no other call is in progress
DoSchemeSaveBeginAlone ==
    /\ InProgress = {}
    /\ DoSchemeSaveBegin

DoSchemeSaveClear == \E w \in Writers : SchemeSaveClear(w)

DoSchemeSavePersist == \E w \in Writers : SchemeSavePersist(w)

---------------------------------------------------------------------------
(* CalendarScheme: the working hours of the days of a month.  A date is   *)
(* <<year, month, day>>; a Date string "%Y-%m-%d" is the year followed by *)
(* the two digits of the month and of the day.                            *)

\* WEEKDAYS
WEEKDAYS == (0 :> "mon") @@ (1 :> "tue") @@ (2 :> "wed") @@ (3 :> "thu")
            @@ (4 :> "fri") @@ (5 :> "sat") @@ (6 :> "sun")

\* str(n).zfill(2), n < 100
Zfill2(n) == <<n \div 10, n % 10>>

\* "{year}-{month}-{day}".format(...), and row.date.strftime("%Y-%m-%d")
DateString(y, m, d) == <<y>> \o Zfill2(m) \o Zfill2(d)

\* the date the store reads from a Date string
ParseDate(str) == <<str[1], 10 * str[2] + str[3], 10 * str[4] + str[5]>>

\* calendar.isleap, calendar.mdays, calendar.monthrange
IsLeap(y) == y % 4 = 0 /\ (y % 100 # 0 \/ y % 400 = 0)

MDays == <<31, 28, 31, 30, 31, 30, 31, 31, 30, 31, 30, 31>>

DaysInMonth(y, m) == MDays[m] + (IF m = 2 /\ IsLeap(y) THEN 1 ELSE 0)

RECURSIVE DaysBeforeMonth(_, _)
DaysBeforeMonth(y, m) ==
    IF m = 1 THEN 0 ELSE DaysBeforeMonth(y, m - 1) + DaysInMonth(y, m - 1)

\* date.toordinal, date.weekday
Ordinal(date) ==
    LET p == date[1] - 1
    IN p * 365 + (p \div 4) - (p \div 100) + (p \div 400)
         + DaysBeforeMonth(date[1], date[2]) + date[3]

Weekday(date) == (Ordinal(date) + 6) % 7

\* Calendar().itermonthdays2(year, month): the weeks of the month, day 0 for
\* the days of the neighbouring months
itermonthdays2(year, month) ==
    LET day1 == Weekday(<<year, month, 1>>)
        ndays == DaysInMonth(year, month)
        days_after == (0 - day1 - ndays) % 7
    IN [i \in 1..(day1 + ndays + days_after) |->
           <<IF i > day1 /\ i <= day1 + ndays THEN i - day1 ELSE 0, (i - 1) % 7>>]

\* _get_month_days: (date string, weekday name, day string) of each day
get_month_days(year, month) ==
    LET days == SelectSeq(itermonthdays2(year, month), LAMBDA e : e[1] # 0)
    IN [i \in 1..Len(days) |->
           [dt |-> DateString(year, month, days[i][1]),
            weekday |-> WEEKDAYS[days[i][2]],
            day |-> Zfill2(days[i][1])]]

\* result.update({day: row.hours}) for the rows in the order of the query
RECURSIVE OverlayRowsMutantSkipZero(_, _)
OverlayRowsMutantSkipZero(result, rows) ==
    IF rows = <<>> THEN result
    ELSE OverlayRowsMutantSkipZero(
            IF Head(rows).hours = 0 THEN result
            ELSE (DateString(Head(rows).date[1], Head(rows).date[2], Head(rows).date[3])
                     :> Head(rows).hours) @@ result,
            Tail(rows))

RECURSIVE OverlayRows(_, _)
OverlayRows(result, rows) ==
    IF rows = <<>> THEN result
    ELSE OverlayRows(
            (DateString(Head(rows).date[1], Head(rows).date[2], Head(rows).date[3])
                :> Head(rows).hours) @@ result,
            Tail(rows))

\* ycs.rows.filter(Q(date__gte=month_start) & Q(date__lte=month_end))
RowsOfMonth(ycs, month_start, month_end) ==
    {row \in ycs : /\ Ordinal(row.date) >= Ordinal(ParseDate(month_start))
                   /\ Ordinal(row.date) <= Ordinal(ParseDate(month_end))}

\* _get_month_working_hours: the dictionary date string -> hours; order is the
\* order in which the query returns the rows
get_month_working_hours(wcs, year, month, order) ==
    LET month_dates == get_month_days(year, month)
        weekly == [k \in {month_dates[i].dt : i \in 1..Len(month_dates)} |->
                      LET i == CHOOSE j \in 1..Len(month_dates) : month_dates[j].dt = k
                      IN wcs[month_dates[i].weekday]]
    IN OverlayRows(weekly, order)

\* get_month_working_days
get_month_working_days(wcs, year, month, order, today) ==
    LET wh == get_month_working_hours(wcs, year, month, order)
        md == get_month_days(year, month)
    IN [i \in 1..Len(md) |->
           [dt |-> md[i].dt, day |-> md[i].day, weekday |-> md[i].weekday,
            hours |-> wh[md[i].dt], eow |-> md[i].weekday = "sun",
            cur |-> md[i].dt = today]]

RECURSIVE SumOver(_, _)
SumOver(f, keys) ==
    IF keys = {} THEN 0
    ELSE LET k == CHOOSE x \in keys : TRUE IN f[k] + SumOver(f, keys \ {k})

\* get_working_days_count: len(list(filter(lambda date: wh[date], wh)))
get_working_days_countMutantAllDays(wh) == Cardinality(DOMAIN wh)

get_working_days_count(wh) == Cardinality({k \in DOMAIN wh : wh[k] # 0})

\* get_working_hours_count: sum(wh.values())
get_working_hours_count(wh) == SumOver(wh, DOMAIN wh)

\* the orders in which the query may return the rows of the month
QueryOrders(ycs, year, month) ==
    LET month_dates == get_month_days(year, month)
    IN Orders(RowsOfMonth(ycs, month_dates[1].dt, month_dates[Len(month_dates)].dt))

\* the three queries of a scheme with weekly scheme wcs and yearly rows ycs
MonthQuery(query, wcs, ycs, year, month, today) ==
    /\ \E order \in QueryOrders(ycs, year, month) :
         \E wh \in {get_month_working_hours(wcs, year, month, order)} :
           last' = [op |-> query, wcs |-> wcs, ycs |-> ycs, year |-> year,
                    month |-> month,
                    result |-> IF query = "get_month_working_days"
                               THEN get_month_working_days(wcs, year, month,
                                                           order, today)
                               ELSE IF query = "get_working_days_count"
                               THEN get_working_days_count(wh)
                               ELSE get_working_hours_count(wh)]
    /\ UNCHANGED <<now, roles, posRoles, posLog, workLog, migrations, roleMigrations,
                   saves, schemes, writers>>

\* the weekly schemes of the queries: the five-day week of 8 hours, and a week
\* with different hours on every day
FiveDayWeek ==
    [mon |-> 8, tue |-> 8, wed |-> 8, thu |-> 8, fri |-> 8, sat |-> 0, sun |-> 0]

WeeklySchemes ==
    {FiveDayWeek,
     [mon |-> 1, tue |-> 2, wed |-> 3, thu |-> 4, fri |-> 5, sat |-> 6, sun |-> 7]}

\* the yearly rows: up to MaxOverrides rows on the first and last days of
\* January and February 2016 and the days next to them, of 0 or 4 hours
OverrideDates ==
    {<<2015, 12, 31>>, <<2016, 1, 1>>, <<2016, 1, 31>>, <<2016, 2, 1>>,
     <<2016, 2, 29>>, <<2016, 3, 1>>}

YearlySchemes ==
    {ycs \in SUBSET [date : OverrideDates, hours : {0, 4}] :
        Cardinality(ycs) <= MaxOverrides}

\* the (year, month) of the queries: months of 31, 30, 29 and 28 days
Months ==
    {<<2016, 1>>, <<2016, 2>>, <<2015, 2>>, <<2016, 4>>, <<2000, 2>>, <<1900, 2>>}

\* date.today() is the first of January 2016 or a day of no month queried
Todays == {DateString(2016, 1, 1), DateString(2017, 1, 1)}

\* the calls of the month queries: a scheme, a month and the day of the call
MonthCalls ==
    {[op |-> "call", wcs |-> wcs, ycs |-> ycs, year |-> ym[1], month |-> ym[2],
      today |-> today] :
        wcs \in WeeklySchemes, ycs \in YearlySchemes, ym \in Months, today \in Todays}

\* the query answers the call drawn at the start
DoMonthQuery(query) ==
    /\ last.op = "call"
    /\ MonthQuery(query, last.wcs, last.ycs, last.year, last.month, last.today)

DoGetMonthWorkingDays == DoMonthQuery("get_month_working_days")

DoGetWorkingDaysCount == DoMonthQuery("get_working_days_count")

DoGetWorkingHoursCount == DoMonthQuery("get_working_hours_count")

---------------------------------------------------------------------------
(* Specification of the migration engine: two workers, worker 1 on a      *)
(* position holding roles 1 and 2, worker 2 on a position holding role 1, *)
(* any stored WorkLog rows, and the first WorkLogMigration of the store   *)
(* with its child rows.                                                   *)

InitialRole ==
    [name |-> <<1>>, salary_type |-> 1, salary |-> 1, calendar_scheme |-> 1,
     date_start |-> 2, date_end |-> Null, replaced_by |-> Null]

\* the WorkLog tables that saves of distinct (worker, role, date) rows leave,
\* one table per set of rows (the rows in the order of RowKey)
RowKey(r) == (r.worker * MaxRoles + r.role) * (MaxTime + 1) + r.date

StoredWorkLogs ==
    LET Rows == [worker : Workers, role : {1, 2}, date : Days, hours : {1}]
        Tables == UNION {[1..n -> Rows] : n \in 0..MaxWorkLogs}
    IN {wl \in Tables : \A i \in 1..Len(wl) : \A j \in 1..Len(wl) :
                            i < j => RowKey(wl[i]) < RowKey(wl[j])}

InitMig ==
    /\ now = 1
    /\ roles = <<InitialRole, [InitialRole EXCEPT !.name = <<2>>]>>
    /\ posRoles = (1 :> {1, 2}) @@ (2 :> {1})
    /\ posLog = <<OpenLog(1, 1, 1), OpenLog(1, 2, 1), OpenLog(2, 1, 1)>>
    /\ workLog \in StoredWorkLogs
    /\ migrations = <<>>
    /\ roleMigrations = {}
    /\ saves = 0
    /\ schemes = NoDefault
    /\ writers = NoWriters
    /\ last = [op |-> "init"]

NextMig ==
    \/ DoMigrationSave
    \/ DoRoleMigrationSave

SpecMig == InitMig /\ [][NextMig]_vars

---------------------------------------------------------------------------
(* Specification of role versioning: one stored role, held by position 1  *)
(* since tick 1, with any WorkLog rows of worker 1; up to MaxSaves calls  *)
(* of Role.save, creating roles and editing stored ones, with any name,   *)
(* pay fields and dates and no successor.                                 *)

RoleWorkLogs ==
    {wl \in StoredWorkLogs : \A i \in 1..Len(wl) : wl[i].worker = 1 /\ wl[i].role = 1}

InitRole ==
    /\ now = 2
    /\ roles = <<InitialRole>>
    /\ posRoles = (1 :> {1}) @@ (2 :> {})
    /\ posLog = <<OpenLog(1, 1, 1)>>
    /\ workLog \in RoleWorkLogs
    /\ migrations = <<>>
    /\ roleMigrations = {}
    /\ saves = 0
    /\ schemes = NoDefault
    /\ writers = NoWriters
    /\ last = [op |-> "init"]

NextRole == DoRoleSave(RoleCandidates({Null}))

SpecRole == InitRole /\ [][NextRole]_vars

---------------------------------------------------------------------------
(* Specification of the ledger: one stored role with a WorkLog row, no    *)
(* position holding it; the role sets are changed, the clock advances,    *)
(* and stored roles are saved with their salary changed.                  *)

\* the stored roles as the edit form hands them back, with the salary changed
\* and any date_start
SalaryEdits ==
    {[pk |-> pk, name |-> roles[pk].name,
      salary_type |-> roles[pk].salary_type, salary |-> 3 - roles[pk].salary,
      calendar_scheme |-> roles[pk].calendar_scheme,
      date_start |-> ds, date_end |-> roles[pk].date_end,
      replaced_by |-> roles[pk].replaced_by] : pk \in RolePks, ds \in Times}

InitLedger ==
    /\ now = 1
    /\ roles = <<[InitialRole EXCEPT !.date_start = 1]>>
    /\ posRoles = [p \in Positions |-> {}]
    /\ posLog = <<>>
    /\ workLog = <<[worker |-> 1, role |-> 1, date |-> 1, hours |-> 1]>>
    /\ migrations = <<>>
    /\ roleMigrations = {}
    /\ saves = 0
    /\ schemes = NoDefault
    /\ writers = NoWriters
    /\ last = [op |-> "init"]

NextLedger ==
    \/ DoRolesAdd
    \/ DoRolesRemove
    \/ DoRolesClear
    \/ Tick
    \/ DoRoleSave(SalaryEdits)

SpecLedger == InitLedger /\ [][NextLedger]_vars

---------------------------------------------------------------------------
(* Specification of the successor links: the store of InitRole; up to     *)
(* MaxSaves calls of Role.save whose candidates name no successor or any  *)
(* stored role as replaced_by.                                            *)

NextChain == DoRoleSave(RoleCandidates({Null} \cup RolePks))

SpecChain == InitRole /\ [][NextChain]_vars

---------------------------------------------------------------------------
(* Specification of the ledger of one position: the store of InitLedger;  *)
(* role-set calls on position 1 and versioning edits while the ledger has *)
(* at most MaxHistory entries, and clock ticks.                           *)

DoRolesAddOne ==
    \E r \in RolePks : RolesAdd(1, r) /\ Len(posLog') <= MaxHistory

DoRolesRemoveOne ==
    \E r \in RolePks : RolesRemove(1, r) /\ Len(posLog') <= MaxHistory

DoVersioningEdit ==
    /\ saves < MaxSaves
    /\ saves' = saves + 1
    /\ \E cand \in SalaryEdits : RoomFor(cand) /\ RoleSave(cand)
    /\ Len(posLog') <= MaxHistory

NextHistory ==
    \/ DoRolesAddOne
    \/ DoRolesRemoveOne
    \/ Tick
    \/ DoVersioningEdit

SpecHistory == InitLedger /\ [][NextHistory]_vars

---------------------------------------------------------------------------
(* Specifications of CalendarScheme.save: up to MaxSchemes schemes, at    *)
(* first none or one; two writers whose calls interleave                  *)
(* (SpecSchemes), or calls one after the other (SpecSchemesSerial).       *)

InitSchemes ==
    /\ now = 1
    /\ roles = <<>>
    /\ posRoles = [p \in Positions |-> {}]
    /\ posLog = <<>>
    /\ workLog = <<>>
    /\ migrations = <<>>
    /\ roleMigrations = {}
    /\ saves = 0
    /\ schemes \in {<<>>, <<FALSE>>, <<TRUE>>}
    /\ writers = NoWriters
    /\ last = [op |-> "init"]

NextSchemes ==
    \/ DoSchemeSaveBegin
    \/ DoSchemeSaveClear
    \/ DoSchemeSavePersist

SpecSchemes == InitSchemes /\ [][NextSchemes]_vars

NextSchemesSerial ==
    \/ DoSchemeSaveBeginAlone
    \/ DoSchemeSaveClear
    \/ DoSchemeSavePersist

SpecSchemesSerial == InitSchemes /\ [][NextSchemesSerial]_vars

---------------------------------------------------------------------------
(* Specification of the WorkLog table: two roles held by the positions,   *)
(* a stored migration from worker 1 to worker 2 that maps role 1 to       *)
(* itself, and no rows at first; saves of WorkLog instances of worker 1,  *)
(* versioning edits of the roles, and saves of migrations.                *)

InitWorkLog ==
    /\ now = 2
    /\ roles = <<[InitialRole EXCEPT !.date_start = 1],
                 [InitialRole EXCEPT !.date_start = 1, !.name = <<2>>]>>
    /\ posRoles = (1 :> {1, 2}) @@ (2 :> {1})
    /\ posLog = <<>>
    /\ workLog = <<>>
    /\ migrations = <<[old_worker |-> 1, new_worker |-> 2,
                       date_migrate_from |-> 1, commit |-> FALSE]>>
    /\ roleMigrations = {[migration |-> 1, old_role |-> 1, new_role |-> 1]}
    /\ saves = 0
    /\ schemes = NoDefault
    /\ writers = NoWriters
    /\ last = [op |-> "init"]

\* the saves of this specification: instances of worker 1 dated on the cutover day
CutoverWorkLogs ==
    {cand \in WorkLogCandidates : cand.worker = 1 /\ cand.date \in CutoverDays}

NextWorkLog ==
    \/ DoWorkLogSave(CutoverWorkLogs)
    \/ DoRoleSave(SalaryEdits)
    \/ DoMigrationSave

SpecWorkLog == InitWorkLog /\ [][NextWorkLog]_vars

---------------------------------------------------------------------------
(* Worker.is_active and the specification of its calls. *)

\* is_active: True if not self.date_end or self.date_end < timezone.now()
is_active(worker, time) ==
    IF worker.date_end = Null \/ worker.date_end < time THEN TRUE ELSE FALSE

\* the readings of timezone.now() and the values of Worker.date_end
ClockTimes == 1..MaxClock

WorkerRecords ==
    [pk : Workers, position : Positions, date_end : {Null} \cup ClockTimes]

\* a call of is_active on a worker of the table
WorkerCalls ==
    {[op |-> "call", worker |-> worker] :
        worker \in {w \in WorkerRecords : w.position = WorkerPosition(w.pk)}}

DoIsActive ==
    /\ last.op = "call"
    /\ last' = [op |-> "is_active", worker |-> last.worker,
                result |-> is_active(last.worker, now)]
    /\ UNCHANGED <<now, roles, posRoles, posLog, workLog, migrations, roleMigrations,
                   saves, schemes, writers>>

InitWorker ==
    /\ now \in ClockTimes
    /\ roles = <<>>
    /\ posRoles = [p \in Positions |-> {}]
    /\ posLog = <<>>
    /\ workLog = <<>>
    /\ migrations = <<>>
    /\ roleMigrations = {}
    /\ saves = 0
    /\ schemes = NoDefault
    /\ writers = NoWriters
    /\ last \in WorkerCalls

NextWorker == DoIsActive

SpecWorker == InitWorker /\ [][NextWorker]_vars

---------------------------------------------------------------------------
(* Specification of the calendar queries: the three month queries of a    *)
(* scheme, each answering a call drawn from MonthCalls.                   *)

InitCalendar ==
    /\ now = 1
    /\ roles = <<>>
    /\ posRoles = [p \in Positions |-> {}]
    /\ posLog = <<>>
    /\ workLog = <<>>
    /\ migrations = <<>>
    /\ roleMigrations = {}
    /\ saves = 0
    /\ schemes = NoDefault
    /\ writers = NoWriters
    /\ last \in MonthCalls

NextCalendar ==
    \/ DoGetMonthWorkingDays
    \/ DoGetWorkingDaysCount
    \/ DoGetWorkingHoursCount

SpecCalendar == InitCalendar /\ [][NextCalendar]_vars

---------------------------------------------------------------------------
(* Claims about the migration engine (checked under SpecMig) *)

CommitDone == last.op = "MigrationSave" /\ last.commit /\ last.result = "ok"
CommitDoneNext == last'.op = "MigrationSave" /\ last'.commit /\ last'.result = "ok"

\* C1: once a WorkLogMigration is stored with commit = TRUE, no later save of
\* it changes its stored record (so its commit flag never returns to FALSE).
C1_CommittedIsTerminal ==
    [][\A m \in 1..Len(migrations) :
          migrations[m].commit => migrations'[m] = migrations[m]]_vars

\* C2: a save with commit = TRUE of a migration that has no identity, or whose
\* stored version is already committed, fails with ValidationError and leaves
\* every WorkLog row and the stored migrations unchanged.
C2_CommitGuard ==
    [][(/\ last'.op = "MigrationSave"
        /\ last'.commit
        /\ \/ last'.pk = Null
           \/ migrations[last'.pk].commit)
       => /\ last'.result = "ValidationError"
          /\ workLog' = workLog
          /\ migrations' = migrations]_vars

\* C2 witness: a second commit was refused while a child role migration still
\* matches a stored row.
C2_RecommitRefused ==
    /\ last.op = "MigrationSave" /\ last.commit /\ last.pk # Null
    /\ last.result = "ValidationError"
    /\ migrations[last.pk].commit
    /\ \E rm \in RoleMigrationsOf(last.pk) :
          /\ rm.old_role # rm.new_role
          /\ MatchedRows(workLog, migrations[last.pk].old_worker, rm.old_role,
                         migrations[last.pk].date_migrate_from) # {}

\* the child rows give every old_role one new_role
IsRoleMap(rms) ==
    \A a \in rms : \A b \in rms : a.old_role = b.old_role => a.new_role = b.new_role

\* C3: after a successful commit, every row that before it had
\* worker = old_worker, role = old_role and date >= date_migrate_from for a
\* child (old_role, new_role) has worker = new_worker and role = new_role
\* (read for child rows that give each old_role one new_role).
C3_MatchedRowsReassigned ==
    [][(CommitDoneNext /\ IsRoleMap(RoleMigrationsOf(last'.pk))) =>
         LET m == migrations'[last'.pk] IN
         \A rm \in RoleMigrationsOf(last'.pk) :
           \A i \in MatchedRows(workLog, m.old_worker, rm.old_role, m.date_migrate_from) :
              /\ workLog'[i].worker = m.new_worker
              /\ workLog'[i].role = rm.new_role]_vars

\* C4: after a successful commit with old_worker # new_worker no row with
\* worker = old_worker and date >= date_migrate_from remains, and the rows a
\* role migration matched still exist, under new_worker; with
\* old_worker = new_worker the commit deletes no row.
C4_RemainingRowsDeleted ==
    [][CommitDoneNext =>
         LET m == migrations'[last'.pk] IN
         IF m.old_worker # m.new_worker
         THEN /\ \A i \in WorkLogPks(workLog') :
                    ~(/\ workLog'[i].worker = m.old_worker
                      /\ workLog'[i].date >= m.date_migrate_from)
              /\ \A rm \in RoleMigrationsOf(last'.pk) :
                   \A i \in MatchedRows(workLog, m.old_worker, rm.old_role,
                                        m.date_migrate_from) :
                      /\ i \in WorkLogPks(workLog')
                      /\ workLog'[i].worker = m.new_worker
         ELSE WorkLogPks(workLog') = WorkLogPks(workLog)]_vars

\* C4 witness: a commit between two workers rewrote one row and deleted another.
C4_CommitMovedAndDeleted ==
    /\ CommitDone
    /\ migrations[last.pk].old_worker # migrations[last.pk].new_worker
    /\ last.rewritten # {}
    /\ last.deleted # {}
    /\ \A i \in last.rewritten : workLog[i].worker = migrations[last.pk].new_worker

\* C5: a commit that fails partway leaves no WorkLog row changed: no row is
\* rewritten by a migration save that did not succeed.
C5_FailedCommitChangesNothing ==
    [][(last'.op = "MigrationSave" /\ last'.result # "ok") => workLog' = workLog]_vars

\* the role mapping names a role of the old worker's position and a role of
\* the new worker's position
RolesOfPositions(rm) ==
    /\ rm.old_role \in posRoles[WorkerPosition(migrations[rm.migration].old_worker)]
    /\ rm.new_role # Null
    /\ rm.new_role \in posRoles[WorkerPosition(migrations[rm.migration].new_worker)]

\* C19: the save of a child role mapping ends in ValidationError and stores
\* nothing unless old_role is in the role set of the old worker's position and
\* new_role in the role set of the new worker's position; a mapping with
\* new_role unset is always rejected.
C19_RoleMappingValidated ==
    [][last'.op = "RoleMigrationSave" =>
         /\ last'.result = "ValidationError" => roleMigrations' = roleMigrations
         /\ last'.result = "IntegrityError" => RolesOfPositions(last'.rm)
         /\ last'.result = "ok" =>
               /\ Cardinality(roleMigrations' \ roleMigrations) = 1
               /\ \A rm \in roleMigrations' \ roleMigrations : RolesOfPositions(rm)]_vars

\* a mapping from a role of the old worker's position to no role was rejected
C19_UnsetNewRoleRejected ==
    /\ last.op = "RoleMigrationSave" /\ last.result = "ValidationError"
    /\ last.rm.new_role = Null
    /\ last.rm.old_role \in posRoles[WorkerPosition(migrations[last.rm.migration].old_worker)]

\* C25: a migration commit leaves unchanged every WorkLog row dated before
\* date_migrate_from and every row whose worker before the commit is not
\* old_worker, the rows of new_worker included.
C25_CommitFrame ==
    [][(last'.op = "MigrationSave" /\ last'.commit)
       => \A i \in WorkLogPks(workLog) :
             (\/ workLog[i].date < last'.date_migrate_from
              \/ workLog[i].worker # last'.old_worker)
             => workLog'[i] = workLog[i]]_vars

\* a commit from worker 1 to worker 2 rewrote or deleted a row of worker 1
\* while the table held an earlier row of worker 1 or a row of worker 2
C25_CommitBesideOtherRows ==
    /\ last.op = "MigrationSave" /\ last.commit /\ last.result = "ok"
    /\ last.rewritten \cup last.deleted # {}
    /\ migrations[last.pk].old_worker = 1 /\ migrations[last.pk].new_worker = 2
    /\ \E i \in WorkLogPks(workLog) :
          i \notin last.rewritten /\
          (workLog[i].worker = 1 => workLog[i].date < migrations[last.pk].date_migrate_from)

---------------------------------------------------------------------------
(* Claims about Role.save and role versioning (checked under SpecRole) *)

PayOf(r) == <<r.salary_type, r.salary, r.calendar_scheme>>

\* the candidate c is a stored role with a WorkLog row and a changed pay field
PayEdit(c) ==
    /\ c.pk \in RolePks
    /\ \E i \in WorkLogPks(workLog) : workLog[i].role = c.pk
    /\ PayOf(c) # PayOf(roles[c.pk])

\* the step left one more Role record: the old one closed at the candidate's
\* date_start with its pay fields kept and the new one as its successor, the
\* new one open with the candidate's pay fields
VersionLeft(c) ==
    /\ Len(roles') = Len(roles) + 1
    /\ PayOf(roles'[c.pk]) = PayOf(roles[c.pk])
    /\ roles'[c.pk].date_end = c.date_start
    /\ roles'[c.pk].replaced_by = Len(roles')
    /\ PayOf(roles'[Len(roles')]) = PayOf(c)
    /\ roles'[Len(roles')].date_end = Null

\* C6 as stated: every save of a stored role that has a WorkLog row, with a
\* changed pay field and a later date_start, leaves one more Role record, the
\* old one closed and succeeded by the new one.
C6_VersioningEdit ==
    [][(/\ last'.op = "RoleSave"
        /\ PayEdit(last'.cand)
        /\ last'.cand.date_start > roles[last'.cand.pk].date_start)
       => VersionLeft(last'.cand)]_vars

\* the candidate passes the date_end rule, and neither its name nor the name
\* the old record is renamed to is carried by another Role record
CandidateAccepted(c) ==
    /\ c.date_end = Null \/ c.date_end > c.date_start
    /\ \A i \in RolePks :
          i # c.pk => roles[i].name \notin {c.name, <<c.date_start>> \o c.name}

\* C6 amended: such a save leaves one more Role record, the old one closed and
\* succeeded by the new one, when the candidate's date_end is unset or later
\* than its date_start and its name and the old record's new name are free.
C6_AcceptedVersioningEdit ==
    [][(/\ last'.op = "RoleSave"
        /\ PayEdit(last'.cand)
        /\ last'.cand.date_start > roles[last'.cand.pk].date_start
        /\ CandidateAccepted(last'.cand))
       => VersionLeft(last'.cand)]_vars

\* a versioning edit was carried out: role 1 is closed at the candidate's
\* date_start and succeeded by role 2, which has the candidate's pay fields
C6_RoleVersioned ==
    /\ last.op = "RoleSave" /\ last.result = "ok" /\ last.cand.pk = 1
    /\ Len(roles) = 2
    /\ roles[1].replaced_by = 2 /\ roles[1].date_end = last.cand.date_start
    /\ PayOf(roles[2]) = PayOf(last.cand) /\ PayOf(roles[1]) # PayOf(roles[2])

\* the step is a versioning edit of role old that went through
VersionedStep(old) ==
    /\ last'.op = "RoleSave" /\ last'.result = "ok"
    /\ last'.cand.pk = old
    /\ Len(roles') = Len(roles) + 1

\* C7: a versioning edit with effective date D moves the old role's WorkLog
\* rows dated on or after the day of D to the new role, leaves its earlier rows
\* on the old role, and creates, deletes or otherwise changes no row.
C7_WorkLogsFollowVersion ==
    [][\A old \in RolePks :
         VersionedStep(old) =>
           /\ Len(workLog') = Len(workLog)
           /\ \A i \in 1..Len(workLog) :
                 IF workLog[i] = NoRow THEN workLog'[i] = NoRow
                 ELSE /\ workLog'[i] # NoRow
                      /\ workLog'[i].worker = workLog[i].worker
                      /\ workLog'[i].date = workLog[i].date
                      /\ workLog'[i].hours = workLog[i].hours
                      /\ workLog[i].role = old =>
                            workLog'[i].role =
                               IF workLog[i].date >= DateOf(last'.cand.date_start)
                               THEN Len(roles') ELSE old]_vars

\* a versioning edit went through with a row on either side of the cutover:
\* one on the old role before D, one on the new role from D on
C7_RowsSplit ==
    /\ last.op = "RoleSave" /\ last.result = "ok" /\ last.cand.pk = 1
    /\ Len(roles) = 2 /\ roles[1].replaced_by = 2
    /\ \E i \in WorkLogPks(workLog) :
          workLog[i].role = 1 /\ workLog[i].date < DateOf(last.cand.date_start)
    /\ \E i \in WorkLogPks(workLog) :
          workLog[i].role = 2 /\ workLog[i].date >= DateOf(last.cand.date_start)

\* C8: a versioning edit whose date_start is not later than the stored one
\* fails with ValidationError and changes no Role, role set, ledger or WorkLog
\* record.
C8_OldStartRefused ==
    [][(/\ last'.op = "RoleSave"
        /\ PayEdit(last'.cand)
        /\ last'.cand.date_start <= roles[last'.cand.pk].date_start)
       => /\ last'.result = "ValidationError"
          /\ UNCHANGED <<roles, posRoles, posLog, workLog>>]_vars

\* a versioning edit with a well-formed date_end and the stored date_start was
\* refused
C8_SameStartRefused ==
    /\ last.op = "RoleSave" /\ last.result = "ValidationError"
    /\ last.cand.date_end = Null
    /\ last.cand.pk \in RolePks
    /\ \E i \in WorkLogPks(workLog) : workLog[i].role = last.cand.pk
    /\ PayOf(last.cand) # PayOf(roles[last.cand.pk])
    /\ last.cand.date_start = roles[last.cand.pk].date_start

\* C9: every stored Role has date_end unset or later than date_start, and a
\* save of a candidate with date_end set and not later than date_start fails
\* with ValidationError.
C9_EndAfterStart ==
    /\ \A i \in RolePks :
          roles[i].date_end = Null \/ roles[i].date_end > roles[i].date_start
    /\ (/\ last.op = "RoleSave"
        /\ last.cand.date_end # Null
        /\ last.cand.date_end <= last.cand.date_start)
       => last.result = "ValidationError"

\* a candidate ending at its start was refused while a closed Role is stored
C9_EndAtStartRefused ==
    /\ last.op = "RoleSave" /\ last.result = "ValidationError"
    /\ last.cand.date_end # Null
    /\ last.cand.date_end = last.cand.date_start
    /\ \E i \in RolePks : roles[i].date_end # Null

\* C23: the save of a stored role that no WorkLog row references (whatever
\* its pay fields) or whose pay fields equal the stored ones is a plain update
\* in place: the number of Role records stays, the record becomes the
\* candidate when the save goes through, and no role set, ledger entry or
\* WorkLog row changes.
C23_PlainUpdateInPlace ==
    [][(/\ last'.op = "RoleSave"
        /\ last'.cand.pk \in RolePks
        /\ \/ ~\E i \in WorkLogPks(workLog) : workLog[i].role = last'.cand.pk
           \/ PayOf(last'.cand) = PayOf(roles[last'.cand.pk]))
       => /\ Len(roles') = Len(roles)
          /\ roles' = IF last'.result = "ok"
                      THEN [roles EXCEPT ![last'.cand.pk] = RoleRecord(last'.cand)]
                      ELSE roles
          /\ posRoles' = posRoles /\ posLog' = posLog /\ workLog' = workLog]_vars

\* the only role, referenced by no WorkLog row and held by position 1, was
\* saved with another salary and is still the only role
C23_UnusedRoleRepriced ==
    /\ last.op = "RoleSave" /\ last.result = "ok" /\ last.cand.pk = 1
    /\ last.cand.salary # InitialRole.salary
    /\ workLog = <<>>
    /\ Len(roles) = 1 /\ roles[1].salary = last.cand.salary
    /\ posRoles[1] = {1} /\ posLog = <<OpenLog(1, 1, 1)>>

---------------------------------------------------------------------------
(* Claims about the successor links (checked under SpecChain) *)

\* the role reached from role i by following replaced_by n times, Null once
\* the chain has ended
RECURSIVE Successor(_, _)
Successor(i, n) ==
    IF n = 0 \/ i = Null THEN i ELSE Successor(roles[i].replaced_by, n - 1)

\* C21: after any sequence of role saves and versioning edits, whatever the
\* candidates' replaced_by, the replaced_by relation over the stored roles is
\* acyclic: the chain from every role ends at a role without successor.
C21_SuccessorsAcyclic ==
    \A i \in RolePks : Successor(i, Len(roles)) = Null

\* C22: after a versioning edit replacing old by new completes, every role
\* that had replaced_by = old has replaced_by = new, and new itself does not
\* have replaced_by = old.
C22_LinksRepointed ==
    [][\A old \in RolePks : (VersionedStep(old) /\ last'.versioned) =>
          /\ \A i \in RolePks : roles[i].replaced_by = old
                                    => roles'[i].replaced_by = Len(roles')
          /\ roles'[Len(roles')].replaced_by # old]_vars

---------------------------------------------------------------------------
(* Claims about the ledger (checked under SpecLedger) *)

\* no two entries of one (position, role) pair are open
OneOpenEntry ==
    \A j \in LogPks(posLog) : \A k \in LogPks(posLog) :
        (/\ posLog[j].date_end = Null /\ posLog[k].date_end = Null
         /\ posLog[j].position = posLog[k].position
         /\ posLog[j].role = posLog[k].role) => j = k

\* C10: whatever role-set calls and versioning edits were made, a (position,
\* role) pair has at most one open ledger entry, and adding a role that has an
\* open entry on the position leaves the ledger as it was.
C10_OneOpenEntryPerPair ==
    /\ []OneOpenEntry
    /\ [][(/\ last'.op = "RolesAdd"
            /\ OpenLogs(posLog, last'.position, last'.role) # {})
           => posLog' = posLog]_vars

\* after a versioning edit the successor, held by the position with its one
\* open entry, was added again
C10_OpenRoleAddedAgain ==
    /\ last.op = "RolesAdd" /\ last.result = "ok"
    /\ Cardinality(OpenLogs(posLog, last.position, last.role)) = 1
    /\ \E i \in RolePks : roles[i].replaced_by = last.role
    /\ \E k \in LogPks(posLog) :
          posLog[k].position = last.position /\ posLog[k].date_end # Null

\* C11: starting from empty role sets and an empty ledger, whatever role-set
\* calls and versioning edits were made, the roles with an open ledger entry
\* for a position are the roles of the position's role set.
C11_OpenEntriesAreRoleSet ==
    \A p \in Positions :
        {r \in RolePks : OpenLogs(posLog, p, r) # {}} = posRoles[p]

\* the ledger entries of the pair (p, r)
EntriesOf(log, p, r) ==
    {k \in LogPks(log) : log[k].position = p /\ log[k].role = r}

\* the pair (p, r) has one ledger entry, which is open
OneEntryOpen(log, p, r) ==
    /\ Cardinality(EntriesOf(log, p, r)) = 1
    /\ \A k \in EntriesOf(log, p, r) : log[k].date_end = Null

\* C12: adding a role the position does not hold and has no entry for leaves
\* one entry of the pair, open from the time of the add; removing the role
\* then leaves that one entry, closed from the time of the add to the time of
\* the remove.
C12_AddThenRemove ==
    [][/\ (/\ last'.op = "RolesAdd"
           /\ last'.role \notin posRoles[last'.position]
           /\ EntriesOf(posLog, last'.position, last'.role) = {})
          => /\ last'.role \in posRoles'[last'.position]
             /\ OneEntryOpen(posLog', last'.position, last'.role)
             /\ \A k \in EntriesOf(posLog', last'.position, last'.role) :
                   posLog'[k].date_start = now
       /\ (/\ last'.op = "RolesRemove"
           /\ last'.role \in posRoles[last'.position]
           /\ OneEntryOpen(posLog, last'.position, last'.role))
          => /\ last'.role \notin posRoles'[last'.position]
             /\ EntriesOf(posLog', last'.position, last'.role)
                   = EntriesOf(posLog, last'.position, last'.role)
             /\ \A k \in EntriesOf(posLog', last'.position, last'.role) :
                   /\ posLog'[k].date_start = posLog[k].date_start
                   /\ posLog'[k].date_end = now]_vars

\* a role was added at tick 1 and removed at a later tick: its one entry spans
\* the two ticks
C12_AddedThenRemoved ==
    /\ last.op = "RolesRemove" /\ last.attached /\ last.result = "ok"
    /\ Cardinality(EntriesOf(posLog, last.position, last.role)) = 1
    /\ \A k \in EntriesOf(posLog, last.position, last.role) :
          posLog[k].date_start = 1 /\ posLog[k].date_end = now /\ now > 1

\* C20: after a versioning edit replacing old by new at effective date D, for
\* every position that held old: the role set has new and not old, no open
\* entry of (position, old) remains, the entry that was open for (position,
\* old) is closed with date_end = D, and the open entry of (position, new)
\* has date_start = D.
C20_LedgerFollowsVersion ==
    [][\A old \in RolePks : VersionedStep(old) =>
          \A p \in Positions : old \in posRoles[p] =>
             /\ Len(roles') \in posRoles'[p] /\ old \notin posRoles'[p]
             /\ OpenLogs(posLog', p, old) = {}
             /\ \A k \in OpenLogs(posLog, p, old) :
                   posLog'[k].date_end = last'.cand.date_start
             /\ OpenLogs(posLog', p, Len(roles')) # {}
             /\ \A k \in OpenLogs(posLog', p, Len(roles')) :
                   posLog'[k].date_start = last'.cand.date_start]_vars

\* C24: in every state reached through role-set add, remove and clear and
\* versioning edits, every closed ledger entry has date_end >= date_start,
\* also when the effective date of a versioning edit is earlier than the time
\* the old role was attached to the position.
C24_ClosedEntriesOrdered ==
    \A k \in LogPks(posLog) :
        posLog[k].date_end # Null => posLog[k].date_end >= posLog[k].date_start

---------------------------------------------------------------------------
(* Claims about CalendarScheme.save *)

DefaultSchemes == {s \in SchemePks : schemes[s]}

\* C13 (checked under SpecSchemes): with two writers saving schemes as default
\* side by side, their statements interleaving freely, no state has two
\* schemes flagged default.
C13_OneDefaultUnderRace == Cardinality(DefaultSchemes) <= 1

\* C14 (checked under SpecSchemesSerial): with calls of save() one after the
\* other at most one scheme is flagged default, and a call that saves a scheme
\* as default ends with that scheme the only default.
C14_OneDefaultSerial ==
    /\ [](Cardinality(DefaultSchemes) <= 1)
    /\ [][\A w \in Writers :
            (/\ writers[w].pc = "persist" /\ writers'[w].pc = "idle"
             /\ writers[w].default_scheme)
            => DefaultSchemes' = {IF writers[w].scheme = Null THEN Len(schemes')
                                  ELSE writers[w].scheme}]_vars

\* scheme 2 was saved as default while scheme 1 was the default: scheme 2 is
\* the only default
C14_DefaultMoved ==
    /\ last.op = "CalendarSchemeSave" /\ last.step = "persist"
    /\ last.scheme = 2 /\ last.default_scheme
    /\ DefaultSchemes = {2}
    /\ \A w \in Writers : writers[w].pc = "idle"

---------------------------------------------------------------------------
(* Claims about the calendar queries (checked under SpecCalendar) *)

\* the number of days of a month of the Gregorian calendar
CalendarDays(y, m) ==
    IF m \in {4, 6, 9, 11} THEN 30
    ELSE IF m # 2 THEN 31
    ELSE IF y % 400 = 0 \/ (y % 4 = 0 /\ y % 100 # 0) THEN 29 ELSE 28

\* the yearly rows of a date
RowsOn(ycs, date) == {row \in ycs : row.date = date}

\* C15: the resolution of a month has one entry per calendar day, in ascending
\* order of the dates; the hours of a day are those of a yearly row of that
\* date if there is one (0 hours included), else those of the weekly scheme
\* for its weekday, so rows dated outside the month change nothing.
C15_MonthResolved ==
    last.op = "get_month_working_days" =>
        /\ Len(last.result) = CalendarDays(last.year, last.month)
        /\ \A d \in 1..Len(last.result) :
             /\ last.result[d].dt = <<last.year, last.month \div 10, last.month % 10,
                                      d \div 10, d % 10>>
             /\ IF RowsOn(last.ycs, <<last.year, last.month, d>>) # {}
                THEN \E row \in RowsOn(last.ycs, <<last.year, last.month, d>>) :
                        last.result[d].hours = row.hours
                ELSE last.result[d].hours
                        = last.wcs[WEEKDAYS[Weekday(<<last.year, last.month, d>>)]]

\* February 2016 was resolved with a row of 0 hours on its last day, a Monday,
\* and a row on the first of March
C15_ZeroOverrideInMonth ==
    /\ last.op = "get_month_working_days"
    /\ last.year = 2016 /\ last.month = 2
    /\ last.wcs = FiveDayWeek
    /\ last.ycs = {[date |-> <<2016, 2, 29>>, hours |-> 0],
                   [date |-> <<2016, 3, 1>>, hours |-> 4]}
    /\ Len(last.result) = 29
    /\ last.result[29].hours = 0 /\ last.result[29].weekday = "mon"

\* the query is about January 2016 under the five-day week without yearly rows
FiveDayJanuary2016 ==
    /\ last.wcs = FiveDayWeek /\ last.ycs = {}
    /\ last.year = 2016 /\ last.month = 1

\* C16 as stated: the five-day week of 8 hours without yearly rows gives, for
\* January 2016, a working days count of 22 and a working hours count of 176.
C16_January2016Counts ==
    /\ (last.op = "get_working_days_count" /\ FiveDayJanuary2016)
          => last.result = 22
    /\ (last.op = "get_working_hours_count" /\ FiveDayJanuary2016)
          => last.result = 176

\* C16 amended: January 2016 has 31 days and starts on a Friday, and the
\* five-day week of 8 hours without yearly rows gives it a working days count
\* of 21 (the days with hours > 0) and a working hours count of 168 (the sum
\* of the hours).
C16_January2016Counts21 ==
    /\ (last.op = "get_month_working_days" /\ FiveDayJanuary2016)
          => /\ Len(last.result) = 31
             /\ last.result[1].weekday = "fri"
             /\ Cardinality({d \in 1..31 : last.result[d].hours > 0}) = 21
    /\ (last.op = "get_working_days_count" /\ FiveDayJanuary2016)
          => last.result = 21
    /\ (last.op = "get_working_hours_count" /\ FiveDayJanuary2016)
          => last.result = 168

\* the working days of January 2016 under the five-day week were counted
C16_January2016Counted ==
    /\ last.op = "get_working_days_count" /\ FiveDayJanuary2016
    /\ last.result = 21

---------------------------------------------------------------------------
(* Claims about Worker (checked under SpecWorker) *)

\* C17: is_active returns true if and only if the worker's date_end is unset
\* or later than the current time; a worker whose date_end lies in the past
\* is reported as not active.
C17_ActiveUntilDateEnd ==
    last.op = "is_active" =>
        (last.result <=> (last.worker.date_end = Null \/ last.worker.date_end > now))

---------------------------------------------------------------------------
(* Claims about the WorkLog table (checked under SpecWorkLog) *)

\* C18: no stored WorkLog row ever has hours = 0: a save with hours = 0
\* deletes the stored row of a persisted entry and stores nothing for a new
\* one, and role versioning and migration commits change no row's hours.
C18_NoZeroHours ==
    /\ [](\A i \in WorkLogPks(workLog) : workLog[i].hours # 0)
    /\ [][(last'.op = "WorkLogSave" /\ last'.hours = 0)
            => IF last'.pk # Null
               THEN /\ WorkLogPks(workLog') = WorkLogPks(workLog) \ {last'.pk}
                    /\ \A i \in WorkLogPks(workLog') : workLog'[i] = workLog[i]
               ELSE workLog' = workLog]_vars
    /\ [][last'.op # "WorkLogSave"
            => \A i \in WorkLogPks(workLog') :
                  i \in WorkLogPks(workLog) /\ workLog'[i].hours = workLog[i].hours]_vars

====
